---- MODULE Spec2Model ----
\* Model of the Longhorn backup controller (src/datastore/manifests.go):
\* the dispatch loop, BackupController.reconcile, isResponsibleFor and the
\* progress-monitor goroutine launched by backupCreation, running on several
\* controller replicas against one Backup custom resource.
EXTENDS Integers, Sequences, FiniteSets, TLC

\* ------------------------------------------------------------------ bounds

\* number of progress-monitor goroutines that may be launched in one run
MaxMonitors == 2
\* cap on the resourceVersion of the Backup object (number of writes in a run)
MaxVersion == 3
\* cap on the wall clock (time advances with each sync request)
MaxTime == 2
\* cap on the number of polls one monitor sleeps through
MaxPolls == 2
\* cap on the number of engines ListVolumeEngines returns
MaxEngines == 1
\* cap on the number of failing calls (API errors, failing remote or engine calls) in a run
MaxFaults == 1
\* retry bound of the dispatch loop
maxRetries == 2

\* ------------------------------------------------------------------ values

\* controller replicas (controllerID = node name)
Replicas == {"n1", "n2"}

BackupStateNew == ""
BackupStateInProgress == "InProgress"
BackupStateCompleted == "Completed"
BackupStateError == "Error"
BackupStateUnknown == "Unknown"

BackupName == "backup-1"
OtherBackupName == "backup-0"
RequestedSnapshot == "snap-1"
OtherSnapshot == "snap-0"

\* the zero value of SnapshotBackupStatus
EmptyStatus ==
    [OwnerID |-> "", State |-> BackupStateNew, URL |-> "", SnapshotName |-> "",
     SnapshotCreatedAt |-> "", BackupCreatedAt |-> "", Size |-> "",
     Labels |-> "", Messages |-> "", VolumeName |-> "", VolumeSize |-> "",
     VolumeCreated |-> "", VolumeBackingImageName |-> "", LastSyncedAt |-> 0]

\* the Backup custom resource: object metadata, Spec and Status
NewBackup(snapshot, labelled) ==
    [exists |-> TRUE, resourceVersion |-> 0, deletionTimestamp |-> FALSE,
     finalizer |-> TRUE, hasVolumeLabel |-> labelled,
     Spec |-> [SnapshotName |-> snapshot, SyncRequestedAt |-> 0],
     Status |-> EmptyStatus]

\* what InspectBackupConfig reports for the backup held by the remote target
RemoteBackupInfo ==
    [URL |-> "s3://target?backup=backup-1&volume=vol-1", SnapshotName |-> RequestedSnapshot,
     SnapshotCreated |-> "t0", Created |-> "t1", Size |-> "2097152",
     Labels |-> "k=v", Messages |-> "none", VolumeName |-> "vol-1",
     VolumeSize |-> "1073741824", VolumeCreated |-> "t0",
     VolumeBackingImageName |-> ""]

\* outcomes of InspectBackupConfig: an error, the "in progress" error, (nil, nil), an info
InspectResults == {"error", "in progress", "nil", "info"}

\* one entry of Engine.Status.BackupStatus
StatusEntries ==
    {[SnapshotName |-> s, Progress |-> p, Error |-> e] :
        s \in {RequestedSnapshot, OtherSnapshot}, p \in {55, 100}, e \in {"", "io error"}}

\* an engine is modelled by its Status.BackupStatus list (at most one entry here)
EngineStatuses == {<<>>} \cup {<<e>> : e \in StatusEntries}

RECURSIVE SeqsUpTo(_, _)
SeqsUpTo(S, n) ==
    IF n = 0 THEN {<<>>}
    ELSE LET shorter == SeqsUpTo(S, n - 1)
         IN  shorter \cup {Append(q, x) : q \in {t \in shorter : Len(t) = n - 1}, x \in S}

\* what ListVolumeEngines may return
EngineLists == SeqsUpTo(EngineStatuses, MaxEngines)

VARIABLES
    backup,         \* the stored Backup object
    backupVolume,   \* the stored BackupVolume of the backup's volume
    backupTarget,   \* the stored default BackupTarget
    engineReady,    \* node -> the default engine image is ready on that ready node
    controllers,    \* the replicas whose backup controller is running
    now,            \* wall clock
    queue,          \* replica -> work queue entry of the backup key
    rec,            \* replica -> the reconcile invocation of its worker
    mon,            \* monitor goroutines launched by backupCreation
    event,          \* what the last step completed: a reconcile return or a monitor exit
    faults,         \* number of failures of collaborators injected so far
    deleteAttempted,\* history: DeleteBackup was called on the remote target
    everCompleted   \* history: the stored state was Completed at some time

vars == <<backup, backupVolume, backupTarget, engineReady, controllers, now, queue, rec,
          mon, event, faults, deleteAttempted, everCompleted>>


\* ------------------------------------------------------------------ data store

Min(a, b) == IF a < b THEN a ELSE b

\* DataStore.CheckEngineImageReadiness(image, node): false for the empty node name
CheckEngineImageReadiness(node) == node \in DOMAIN engineReady /\ engineReady[node]

\* DataStore.ListReadyNodesWithReadyEngineImage(image)
ListReadyNodesWithReadyEngineImage == {n \in DOMAIN engineReady : engineReady[n]}

\* outcome of an optimistic-concurrency update of the stored Backup with object obj
UpdateResult(obj, apiErr) ==
    IF ~backup.exists THEN "notfound"
    ELSE IF apiErr THEN "error"
    ELSE IF obj.resourceVersion # backup.resourceVersion THEN "conflict"
    ELSE "ok"

\* DataStore.UpdateBackupStatus(obj) on success: the status subresource is replaced
UpdateBackupStatus(obj) ==
    [backup EXCEPT !.Status = obj.Status, !.resourceVersion = @ + 1]

\* workqueue.AddRateLimited(key): the rate limiter counts the requeue, the key is queued
AddRateLimited(e) ==
    [queued |-> TRUE, numRequeues |-> Min(e.numRequeues + 1, maxRetries)]

\* workqueue.Forget(key)
Forget(e) == [e EXCEPT !.numRequeues = 0]

\* the informer's AddFunc/UpdateFunc/DeleteFunc: every running controller enqueues the key
enqueueBackup(q) ==
    [x \in Replicas |-> IF x \in controllers THEN AddRateLimited(q[x]) ELSE q[x]]

\* ------------------------------------------------------------------ dispatch loop

\* variant: a failing key is put back whatever its number of requeues
handleErrAlwaysRetries(e, err) == IF ~err THEN Forget(e) ELSE AddRateLimited(e)

handleErr(e, err) ==
    IF ~err THEN Forget(e)
    ELSE IF e.numRequeues < maxRetries THEN AddRateLimited(e)
    ELSE Forget(e)

\* ------------------------------------------------------------------ ownership

\* variant: the engine image readiness of this node and of the cluster is not consulted
isResponsibleForAnyNode(r, b, isResponsible) ==
    isResponsible \/ r = b.Status.OwnerID \/ ~CheckEngineImageReadiness(b.Status.OwnerID)

\* variant: a replica never takes over from an owner that lost the engine image
isResponsibleWithoutTakeover(r, b, isResponsible) ==
    /\ ListReadyNodesWithReadyEngineImage # {}
    /\ CheckEngineImageReadiness(r)
    /\ (isResponsible \/ r = b.Status.OwnerID)

isResponsibleFor(r, b, isResponsible) ==
    IF ListReadyNodesWithReadyEngineImage = {} THEN FALSE
    ELSE LET currentOwnerEngineAvailable == CheckEngineImageReadiness(b.Status.OwnerID)
             currentNodeEngineAvailable == CheckEngineImageReadiness(r)
             isPreferredOwner == currentNodeEngineAvailable /\ isResponsible
             continueToBeOwner == currentNodeEngineAvailable /\ r = b.Status.OwnerID
             requiresNewOwner == currentNodeEngineAvailable /\ ~currentOwnerEngineAvailable
         IN  isPreferredOwner \/ continueToBeOwner \/ requiresNewOwner

\* ------------------------------------------------------------------ reconcile

\* variant: the owner claim is written at every invocation
ownerAlwaysClaimed(r, b) == TRUE

\* the owner claim is written only when the recorded owner differs
needsOwnerClaim(r, b) == b.Status.OwnerID # r

\* variant: a conflict of the owner claim is returned like any other error
claimErrorAlwaysReturned(res) == TRUE

\* the owner claim failed: a conflict ends the invocation with success, any
\* other error is returned
claimErrorReturned(res) == res # "conflict"

\* variant: the remote delete is issued only for a backup volume under deletion
remoteDeleteForDeletingVolume(bt, bv) == bt.URL # "" /\ bv.exists /\ bv.deleting

\* variant: the remote delete is issued whatever the URL of the backup target
remoteDeleteIgnoringTarget(bt, bv) == bv.exists /\ ~bv.deleting

\* deletion branch: the remote delete is issued for a configured target and a live volume
remoteDeleteRequired(bt, bv) == bt.URL # "" /\ bv.exists /\ ~bv.deleting

\* variant: the error of DeleteBackup is logged and dropped
deleteErrorSwallowed(deleteOk) == FALSE

\* deletion branch: a failed DeleteBackup ends the invocation with that error
deleteErrorReturned(deleteOk) == ~deleteOk

\* deletion branch: the backup volume is woken when this was its last backup
isLastBackup(bv, b) == bv.exists /\ bv.LastBackupName = BackupName

\* variant: the status is written whether it changed or not
statusAlwaysWritten(existing, status) == TRUE

\* reflect.DeepEqual(existingBackup.Status, backup.Status) is false
statusChanged(existing, status) == existing # status

\* variant: a conflict of the deferred status write is dropped like any other error
requeueNever(res) == FALSE

\* deferred status write: only a conflict puts the key back on the queue
requeueOnConflict(res) == res = "conflict"

\* creation branch
isCreation(b) == b.Spec.SnapshotName # "" /\ b.Status.State = BackupStateNew

\* variant: a later sync request is not looked at once the backup has synced
isSyncedWhateverRequested(b) == b.Status.LastSyncedAt # 0

\* "the backup config had synced"
isSynced(b) ==
    b.Status.LastSyncedAt # 0 /\ ~(b.Spec.SyncRequestedAt > b.Status.LastSyncedAt)

\* the status update of the sync branch
applyBackupInfo(status, info, syncTime) ==
    [status EXCEPT !.State = BackupStateCompleted, !.URL = info.URL,
                   !.SnapshotName = info.SnapshotName,
                   !.SnapshotCreatedAt = info.SnapshotCreated,
                   !.BackupCreatedAt = info.Created, !.Size = info.Size,
                   !.Labels = info.Labels, !.Messages = info.Messages,
                   !.VolumeName = info.VolumeName, !.VolumeSize = info.VolumeSize,
                   !.VolumeCreated = info.VolumeCreated,
                   !.VolumeBackingImageName = info.VolumeBackingImageName,
                   !.LastSyncedAt = syncTime]

\* variant: a failed inspect stamps the last-synced time
syncedStatusStampsFailure(status, res, info, syncTime) ==
    IF res = "info" THEN applyBackupInfo(status, info, syncTime)
    ELSE [status EXCEPT !.LastSyncedAt = syncTime]

\* variant: a failed inspect resets the state so that the backup starts over
syncedStatusResetsState(status, res, info, syncTime) ==
    IF res = "info" THEN applyBackupInfo(status, info, syncTime)
    ELSE [status EXCEPT !.State = BackupStateNew]

\* the status the sync branch leaves: untouched unless InspectBackupConfig gave an info
syncedStatus(status, res, info, syncTime) ==
    IF res = "info" THEN applyBackupInfo(status, info, syncTime) ELSE status

\* the log of one reconcile invocation, reset when the worker takes the key
NewInvocation ==
    [pc |-> "idle", result |-> "none", branch |-> "none", responsible |-> FALSE,
     url |-> "", owner |-> "",
     backup |-> NewBackup("", FALSE), existing |-> EmptyStatus, changed |-> FALSE,
     claimWrites |-> 0, statusWrites |-> 0, statusWriteResult |-> "none",
     deleteCalls |-> 0, deleteFailed |-> FALSE, volumeUpdates |-> 0,
     finalizerRemovals |-> 0, inspectCalls |-> 0, launches |-> 0, enqueues |-> 0]

NoEvent == [kind |-> "none"]

\* the failures a step may draw: none, or one of S while the run's budget lasts
FaultChoice(S) == {"none"} \cup (IF faults < MaxFaults THEN S ELSE {})

Inject(f) == faults' = IF f = "none" THEN faults ELSE faults + 1

\* the invocation returns: processNextWorkItem hands the error to handleErr
Return(r, inv, err, branch, q) ==
    /\ rec' = [rec EXCEPT ![r] = NewInvocation]
    /\ event' = [kind |-> "return", replica |-> r,
                 log |-> [inv EXCEPT !.pc = "idle", !.branch = branch,
                                     !.result = IF err THEN "err" ELSE "ok",
                                     !.changed = (inv.existing # inv.backup.Status),
                                     !.backup = NewInvocation.backup,
                                     !.existing = NewInvocation.existing]]
    /\ queue' = [q EXCEPT ![r] = handleErr(q[r], err)]

\* processNextWorkItem up to the ownership decision of reconcile
Reconcile_Get(r) ==
    /\ rec[r].pc = "idle"
    /\ queue[r].queued
    /\ UNCHANGED <<backup, backupVolume, backupTarget, engineReady, controllers, now, mon,
                   deleteAttempted, everCompleted>>
    /\ LET q == [queue EXCEPT ![r].queued = FALSE]
           got == [NewInvocation EXCEPT !.backup = backup, !.existing = backup.Status,
                                        !.url = backup.Status.URL,
                                        !.owner = backup.Status.OwnerID]
       IN  IF ~backup.exists
           THEN Return(r, NewInvocation, FALSE, "notfound", q) /\ UNCHANGED faults
           ELSE \E f \in FaultChoice({"setting", "listnodes"}), preferred \in BOOLEAN :
                  /\ Inject(f)
                  /\ IF f = "setting" THEN Return(r, got, TRUE, "settingerr", q)
                     ELSE IF f = "listnodes" THEN Return(r, got, FALSE, "responsibleerr", q)
                     ELSE IF ~isResponsibleFor(r, backup, preferred)
                     THEN Return(r, got, FALSE, "notresponsible", q)
                     ELSE /\ rec' = [rec EXCEPT ![r] =
                                       [got EXCEPT !.responsible = TRUE,
                                                   !.pc = IF needsOwnerClaim(r, backup)
                                                          THEN "claim" ELSE "body"]]
                          /\ queue' = q
                          /\ event' = NoEvent

\* the ownership claim write
Reconcile_Claim(r) ==
    /\ rec[r].pc = "claim"
    /\ UNCHANGED <<backupVolume, backupTarget, engineReady, controllers, now, mon,
                   deleteAttempted, everCompleted>>
    /\ \E f \in FaultChoice({"api"}) :
         LET obj == [rec[r].backup EXCEPT !.Status.OwnerID = r]
             res == UpdateResult(obj, f = "api")
             inv == [rec[r] EXCEPT !.claimWrites = @ + 1, !.backup = obj]
         IN  /\ Inject(f)
             /\ IF res = "ok"
                THEN /\ backup.resourceVersion < MaxVersion
                     /\ backup' = UpdateBackupStatus(obj)
                     /\ rec' = [rec EXCEPT ![r] =
                                  [inv EXCEPT !.backup = backup', !.pc = "body"]]
                     /\ queue' = enqueueBackup(queue)
                     /\ event' = NoEvent
                ELSE /\ Return(r, inv, claimErrorReturned(res),
                               IF res = "conflict" THEN "claimconflict" ELSE "claimerr",
                               queue)
                     /\ UNCHANGED backup

\* deletion branch of reconcile
Reconcile_Deletion(r) ==
    LET b == rec[r].backup
        bv == backupVolume
        called == remoteDeleteRequired(backupTarget, bv)
        bump == isLastBackup(bv, b)
    IN
    /\ rec[r].pc = "body"
    /\ backupTarget.exists /\ b.hasVolumeLabel /\ b.deletionTimestamp
    /\ UNCHANGED <<backupTarget, engineReady, controllers, now, mon, everCompleted>>
    /\ \E f \in FaultChoice({"getvolume", "removefinalizer"}
                            \cup (IF called THEN {"client", "delete"} ELSE {})
                            \cup (IF bump THEN {"bumpconflict", "bumperror"} ELSE {})) :
         /\ Inject(f)
         /\ IF f = "getvolume"
            THEN /\ Return(r, rec[r], TRUE, "volumeerr", queue)
                 /\ UNCHANGED <<backup, backupVolume, deleteAttempted>>
            ELSE IF called /\ f = "client"
            THEN /\ Return(r, rec[r], FALSE, "deleteclienterr", queue)
                 /\ UNCHANGED <<backup, backupVolume, deleteAttempted>>
            ELSE IF called /\ deleteErrorReturned(f # "delete")
            THEN /\ Return(r, [rec[r] EXCEPT !.deleteCalls = @ + 1, !.deleteFailed = TRUE],
                           TRUE, "deleteerr", queue)
                 /\ deleteAttempted' = TRUE
                 /\ UNCHANGED <<backup, backupVolume>>
            ELSE LET inv == [rec[r] EXCEPT
                               !.deleteCalls = IF called THEN @ + 1 ELSE @,
                               !.deleteFailed = called /\ f = "delete",
                               !.volumeUpdates = IF bump THEN @ + 1 ELSE @,
                               !.finalizerRemovals = @ + 1]
                 IN  /\ deleteAttempted' = (deleteAttempted \/ called)
                     /\ backupVolume' = IF bump /\ f \notin {"bumpconflict", "bumperror"}
                                        THEN [bv EXCEPT !.SyncRequestedAt = now] ELSE bv
                     /\ IF f # "removefinalizer"
                        THEN /\ backup' = [backup EXCEPT !.exists = FALSE,
                                                         !.finalizer = FALSE]
                             /\ Return(r, inv, FALSE, "deletion", enqueueBackup(queue))
                        ELSE /\ UNCHANGED backup
                             /\ Return(r, inv, TRUE, "finalizererr", queue)

\* a monitor goroutine as launched by backupCreation
NewMonitor ==
    [pc |-> "start", state |-> BackupStateInProgress, started |-> FALSE, polls |-> 0,
     reason |-> "none", wakeVolume |-> 0, wakeTarget |-> 0,
     fetched |-> NewBackup("", FALSE), wrote |-> "none"]

FreeMonitor == [NewMonitor EXCEPT !.pc = "free", !.state = BackupStateNew]

\* a goroutine that has returned
DoneMonitor == [NewMonitor EXCEPT !.pc = "done", !.state = BackupStateNew]

FreeMonitors == {m \in DOMAIN mon : mon[m].pc = "free"}

\* the non-deletion branches of reconcile up to its return; the deferred status
\* write is pending when the status changed
Reconcile_Body(r) ==
    LET b == rec[r].backup
        inv == [rec[r] EXCEPT !.existing = b.Status]
        Finish(i, err, branch) ==
            IF ~err /\ statusChanged(i.existing, i.backup.Status)
            THEN /\ rec' = [rec EXCEPT ![r] = [i EXCEPT !.pc = "deferred", !.branch = branch]]
                 /\ queue' = queue
                 /\ event' = NoEvent
            ELSE Return(r, i, err, branch, queue)
    IN
    /\ rec[r].pc = "body"
    /\ UNCHANGED <<backup, backupVolume, backupTarget, engineReady, controllers, now,
                   deleteAttempted, everCompleted>>
    /\ IF ~backupTarget.exists
       THEN Return(r, rec[r], FALSE, "notarget", queue) /\ UNCHANGED <<mon, faults>>
       ELSE IF ~b.hasVolumeLabel
       THEN Return(r, rec[r], FALSE, "nolabel", queue) /\ UNCHANGED <<mon, faults>>
       ELSE
       /\ ~b.deletionTimestamp
       /\ IF isCreation(b)
          THEN \E f \in FaultChoice({"client", "prepare"}) :
                 /\ Inject(f)
                 /\ IF f = "client" THEN Finish(inv, FALSE, "clienterr") /\ UNCHANGED mon
                    ELSE IF f = "prepare"
                    THEN Finish(inv, TRUE, "creationerr") /\ UNCHANGED mon
                    ELSE /\ FreeMonitors # {}
                         /\ LET m == CHOOSE x \in FreeMonitors :
                                        \A y \in FreeMonitors : x <= y
                            IN  mon' = [mon EXCEPT ![m] = NewMonitor]
                         /\ Finish([inv EXCEPT
                                      !.backup.Status.State = BackupStateInProgress,
                                      !.launches = @ + 1], FALSE, "creation")
          ELSE IF isSynced(b)
          THEN Finish(inv, FALSE, "syncskip") /\ UNCHANGED <<mon, faults>>
          ELSE /\ UNCHANGED mon
               /\ \E f \in FaultChoice({"client"}), res \in InspectResults :
                    /\ Inject(f)
                    /\ IF f = "client" THEN Finish(inv, FALSE, "syncclienterr")
                       ELSE Finish([inv EXCEPT !.inspectCalls = @ + 1,
                                               !.backup.Status =
                                                   syncedStatus(@, res, RemoteBackupInfo, now)],
                                   FALSE,
                                   IF res = "info" THEN "sync"
                                   ELSE IF res = "in progress" THEN "syncinprogress"
                                   ELSE "syncfail")

\* the deferred status write of reconcile
Reconcile_Deferred(r) ==
    /\ rec[r].pc = "deferred"
    /\ UNCHANGED <<backupVolume, backupTarget, engineReady, controllers, now, mon,
                   deleteAttempted>>
    /\ \E f \in FaultChoice({"api"}) :
         LET res == UpdateResult(rec[r].backup, f = "api")
             inv == [rec[r] EXCEPT !.statusWrites = @ + 1, !.statusWriteResult = res,
                                   !.enqueues = IF requeueOnConflict(res) THEN @ + 1 ELSE @]
         IN  /\ Inject(f)
             /\ IF res = "ok"
                THEN /\ backup.resourceVersion < MaxVersion
                     /\ backup' = UpdateBackupStatus(rec[r].backup)
                     /\ everCompleted' =
                           (everCompleted \/ backup'.Status.State = BackupStateCompleted)
                     /\ Return(r, inv, FALSE, rec[r].branch, enqueueBackup(queue))
                ELSE /\ UNCHANGED <<backup, everCompleted>>
                     /\ Return(r, inv, FALSE, rec[r].branch,
                               IF requeueOnConflict(res)
                               THEN [queue EXCEPT ![r] = AddRateLimited(@)] ELSE queue)

\* ------------------------------------------------------------------ progress monitor

\* the zero BackupStatus that bks points to before the search
ZeroBackupStatus == [SnapshotName |-> "", Progress |-> 0, Error |-> ""]

\* a nil *BackupStatus
NilBackupStatus == [SnapshotName |-> "<nil>", Progress |-> 0, Error |-> ""]

\* the first entry of one engine's BackupStatus that matches the snapshot, else bks
RECURSIVE matchInEngine(_, _, _)
matchInEngine(list, snapshot, bks) ==
    IF list = <<>> THEN bks
    ELSE IF Head(list).SnapshotName = snapshot THEN Head(list)
    ELSE matchInEngine(Tail(list), snapshot, bks)

\* the search over all engines: a later engine's match replaces an earlier one
RECURSIVE findBackupStatus(_, _, _)
findBackupStatus(engines, snapshot, bks) ==
    IF engines = <<>> THEN bks
    ELSE findBackupStatus(Tail(engines), snapshot,
                          matchInEngine(Head(engines), snapshot, bks))

\* what the polling loop does with the status entry it selected
classifyPoll(bks) ==
    IF bks = NilBackupStatus THEN "unknown"
    ELSE IF bks.Error # "" THEN "error"
    ELSE IF bks.Progress # 100 THEN "sleep"
    ELSE "completed"

\* which sibling the completed monitor wakes
wakeUpTarget(bv, bt) ==
    IF bv.exists THEN "volume" ELSE IF bt.exists THEN "target" ELSE "none"

\* variant: the state is applied to the status the goroutine captured at its launch
applyStateToLaunchCopy(fetched, state) ==
    [fetched EXCEPT !.Status = [EmptyStatus EXCEPT !.State = state]]

\* the deferred function applies the state to the backup it fetched
applyState(fetched, state) == [fetched EXCEPT !.Status.State = state]

\* the goroutine returns from its deferred function; fetchedState is the state of
\* the copy its deferred function fetched
Exit(m, wrote, fetchedState) ==
    /\ mon' = [mon EXCEPT ![m] = DoneMonitor]
    /\ event' = [kind |-> "exit", monitor |-> m, fetchedState |-> fetchedState,
                 log |-> [mon[m] EXCEPT !.pc = "done", !.wrote = wrote,
                                        !.fetched = NewMonitor.fetched]]

\* the goroutine issues the transfer start call
Monitor_SnapshotBackup(m) ==
    /\ mon[m].pc = "start"
    /\ \E f \in FaultChoice({"start"}) :
         /\ Inject(f)
         /\ mon' = [mon EXCEPT ![m] =
                      IF f = "none" THEN [@ EXCEPT !.pc = "poll", !.started = TRUE]
                      ELSE [@ EXCEPT !.pc = "fetch", !.state = BackupStateError,
                                     !.reason = "startfailed"]]
    /\ event' = NoEvent
    /\ UNCHANGED <<backup, backupVolume, backupTarget, engineReady, controllers, now, queue,
                   rec, deleteAttempted, everCompleted>>

\* one iteration of the polling loop, with the sibling wake-up on completion
Monitor_Poll(m) ==
    /\ mon[m].pc = "poll"
    /\ mon[m].polls < MaxPolls
    /\ event' = NoEvent
    /\ UNCHANGED <<backup, engineReady, controllers, now, queue, rec, deleteAttempted,
                   everCompleted>>
    /\ \E engines \in EngineLists :
         LET bks == findBackupStatus(engines, RequestedSnapshot, ZeroBackupStatus)
             wake == wakeUpTarget(backupVolume, backupTarget)
             polled == [mon[m] EXCEPT !.polls = @ + 1]
         IN  \E f \in FaultChoice({"listengines"}
                                  \cup (IF classifyPoll(bks) = "completed" /\ wake # "none"
                                        THEN {"wakeconflict", "wakeerror"} ELSE {})) :
               LET class == IF f = "listengines" THEN "listerr" ELSE classifyPoll(bks)
                   wakeOk == f = "none"
               IN
               /\ Inject(f)
               /\ CASE class = "listerr" ->
                        /\ mon' = [mon EXCEPT ![m] = [polled EXCEPT !.pc = "fetch",
                                       !.state = BackupStateUnknown, !.reason = "listerr"]]
                        /\ UNCHANGED <<backupVolume, backupTarget>>
                    [] class = "unknown" ->
                        /\ mon' = [mon EXCEPT ![m] = [polled EXCEPT !.pc = "fetch",
                                       !.state = BackupStateUnknown, !.reason = "lost"]]
                        /\ UNCHANGED <<backupVolume, backupTarget>>
                    [] class = "error" ->
                        /\ mon' = [mon EXCEPT ![m] = [polled EXCEPT !.pc = "fetch",
                                       !.state = BackupStateError, !.reason = "transfererr"]]
                        /\ UNCHANGED <<backupVolume, backupTarget>>
                    [] class = "sleep" ->
                        /\ mon' = [mon EXCEPT ![m] = [polled EXCEPT !.reason =
                                       IF bks = ZeroBackupStatus THEN "absent"
                                       ELSE "progress"]]
                        /\ UNCHANGED <<backupVolume, backupTarget>>
                    [] class = "completed" ->
                        /\ mon' = [mon EXCEPT ![m] = [polled EXCEPT !.pc = "fetch",
                                       !.state = BackupStateCompleted,
                                       !.reason = "completed",
                                       !.wakeVolume = IF wake = "volume" THEN @ + 1 ELSE @,
                                       !.wakeTarget = IF wake = "target" THEN @ + 1 ELSE @]]
                        /\ backupVolume' = IF wake = "volume" /\ wakeOk
                                           THEN [backupVolume EXCEPT !.SyncRequestedAt = now]
                                           ELSE backupVolume
                        /\ backupTarget' = IF wake = "target" /\ wakeOk
                                           THEN [backupTarget EXCEPT !.SyncRequestedAt = now]
                                           ELSE backupTarget

\* the deferred function of the goroutine: fetch the backup fresh, apply the state
Monitor_Fetch(m) ==
    /\ mon[m].pc = "fetch"
    /\ IF ~backup.exists THEN Exit(m, "getfailed", BackupStateNew)
       ELSE IF ~statusChanged(backup.Status, applyState(backup, mon[m].state).Status)
       THEN Exit(m, "unchanged", backup.Status.State)
       ELSE /\ mon' = [mon EXCEPT ![m] = [@ EXCEPT !.pc = "write", !.fetched = backup]]
            /\ event' = NoEvent
    /\ UNCHANGED <<backup, backupVolume, backupTarget, engineReady, controllers, now, queue,
                   rec, faults, deleteAttempted, everCompleted>>

\* the deferred function of the goroutine: the status write
Monitor_Write(m) ==
    /\ mon[m].pc = "write"
    /\ UNCHANGED <<backupVolume, backupTarget, engineReady, controllers, now, rec,
                   deleteAttempted>>
    /\ \E f \in FaultChoice({"api"}) :
         LET obj == applyState(mon[m].fetched, mon[m].state)
             res == UpdateResult(obj, f = "api")
         IN  /\ Inject(f)
             /\ Exit(m, res, mon[m].fetched.Status.State)
             /\ IF res = "ok"
                THEN /\ backup.resourceVersion < MaxVersion
                     /\ backup' = UpdateBackupStatus(obj)
                     /\ everCompleted' =
                           (everCompleted \/ backup'.Status.State = BackupStateCompleted)
                     /\ queue' = enqueueBackup(queue)
                ELSE UNCHANGED <<backup, everCompleted, queue>>

\* ------------------------------------------------------------------ environment

\* a client deletes the Backup: the deletion timestamp is set, the finalizer holds it
DeleteRequest ==
    /\ backup.exists /\ ~backup.deletionTimestamp
    /\ backup.resourceVersion < MaxVersion
    /\ backup' = [backup EXCEPT !.deletionTimestamp = TRUE, !.resourceVersion = @ + 1]
    /\ queue' = enqueueBackup(queue)
    /\ event' = NoEvent
    /\ UNCHANGED <<backupVolume, backupTarget, engineReady, controllers, now, rec, mon,
                   faults, deleteAttempted, everCompleted>>

\* time passes, and the backup volume controller asks for a sync of the Backup
RequestSync ==
    /\ backup.exists
    /\ now < MaxTime
    /\ backup.resourceVersion < MaxVersion
    /\ now' = now + 1
    /\ backup' = [backup EXCEPT !.Spec.SyncRequestedAt = now', !.resourceVersion = @ + 1]
    /\ queue' = enqueueBackup(queue)
    /\ event' = NoEvent
    /\ UNCHANGED <<backupVolume, backupTarget, engineReady, controllers, rec, mon,
                   faults, deleteAttempted, everCompleted>>

\* ------------------------------------------------------------------ specification

NoBackupVolume ==
    [exists |-> FALSE, deleting |-> FALSE, LastBackupName |-> "", SyncRequestedAt |-> 0]

BackupVolumes ==
    {NoBackupVolume}
    \cup {[exists |-> TRUE, deleting |-> d, LastBackupName |-> l, SyncRequestedAt |-> 0] :
            d \in BOOLEAN, l \in {BackupName, OtherBackupName}}

BackupTargets ==
    {[exists |-> FALSE, URL |-> "", SyncRequestedAt |-> 0]}
    \cup {[exists |-> TRUE, URL |-> u, SyncRequestedAt |-> 0] : u \in {"", "s3://target"}}

\* the usual cluster: a live backup volume whose last backup this is, a configured target
LiveVolume ==
    [exists |-> TRUE, deleting |-> FALSE, LastBackupName |-> BackupName, SyncRequestedAt |-> 0]

ConfiguredTarget == [exists |-> TRUE, URL |-> "s3://target", SyncRequestedAt |-> 0]

AllReady == [n \in Replicas |-> TRUE]

Cluster(b, bv, bt, ready, running, slots, time, failed) ==
    /\ backup = b
    /\ backupVolume = bv
    /\ backupTarget = bt
    /\ engineReady = ready
    /\ controllers = running
    /\ now = time
    /\ queue = [r \in Replicas |->
                  IF r \in running THEN [queued |-> TRUE, numRequeues |-> 1]
                  ELSE [queued |-> FALSE, numRequeues |-> 0]]
    /\ rec = [r \in Replicas |-> NewInvocation]
    /\ mon = [m \in 1..slots |-> FreeMonitor]
    /\ event = NoEvent
    /\ faults = failed
    /\ deleteAttempted = FALSE
    /\ everCompleted = FALSE

Init ==
    \* one controller, every combination of snapshot, backup volume and backup target
    \/ \E s \in {"", RequestedSnapshot}, bv \in BackupVolumes, bt \in BackupTargets :
         Cluster(NewBackup(s, TRUE), bv, bt, AllReady, {"n1"}, MaxMonitors - 1, 1, 0)
    \* one controller, a backup without the volume label
    \/ Cluster(NewBackup(RequestedSnapshot, FALSE), LiveVolume, ConfiguredTarget,
               AllReady, {"n1"}, MaxMonitors - 1, 1, 0)
    \* one controller, every engine image readiness, a backup unowned or owned by the peer
    \/ \E ready \in [Replicas -> BOOLEAN], owner \in {"", "n2"} :
         Cluster([NewBackup(RequestedSnapshot, TRUE) EXCEPT !.Status.OwnerID = owner],
                 LiveVolume, ConfiguredTarget, ready, {"n1"}, MaxMonitors - 1, 1, 0)
    \* one controller, room for a second monitor, no failing call
    \/ Cluster(NewBackup(RequestedSnapshot, TRUE), LiveVolume, ConfiguredTarget,
               AllReady, {"n1"}, MaxMonitors, 1, MaxFaults)
    \* two controllers racing for the backup, no failing call, no later sync request
    \/ \E s \in {"", RequestedSnapshot} :
         Cluster(NewBackup(s, TRUE), LiveVolume, ConfiguredTarget, AllReady, Replicas,
                 MaxMonitors, MaxTime, MaxFaults)

Next ==
    \/ \E r \in Replicas : Reconcile_Get(r)
    \/ \E r \in Replicas : Reconcile_Claim(r)
    \/ \E r \in Replicas : Reconcile_Deletion(r)
    \/ \E r \in Replicas : Reconcile_Body(r)
    \/ \E r \in Replicas : Reconcile_Deferred(r)
    \/ \E m \in DOMAIN mon : Monitor_SnapshotBackup(m)
    \/ \E m \in DOMAIN mon : Monitor_Poll(m)
    \/ \E m \in DOMAIN mon : Monitor_Fetch(m)
    \/ \E m \in DOMAIN mon : Monitor_Write(m)
    \/ DeleteRequest
    \/ RequestSync

Spec == Init /\ [][Next]_vars

\* ------------------------------------------------------------------ properties

\* a launched monitor goroutine that has not returned yet
InFlight(m) == mon[m].pc \in {"start", "poll", "fetch", "write"}

\* C1: SnapshotBackup is never issued for the backup while an earlier launched
\* transfer of the same backup is still in flight: no two monitors that both
\* issued SnapshotBackup successfully are in flight at the same time.
C1_NoDuplicateTransfer ==
    \A m1, m2 \in DOMAIN mon :
        (m1 # m2 /\ InFlight(m1) /\ InFlight(m2)) => ~(mon[m1].started /\ mon[m2].started)

\* C2 (as stated): the finalizer of a backup that was ever Completed is removed
\* only after DeleteBackup has been called for it on the remote target.
C2_FinalizerOnlyAfterRemoteDelete ==
    (everCompleted /\ ~backup.finalizer) => deleteAttempted

\* C2 (amended): an invocation removes the finalizer of a backup that was ever
\* Completed only after its own DeleteBackup call succeeded, unless the backup
\* target has no URL or the backup volume is missing or under deletion, in which
\* case the finalizer is removed with no remote delete at all.
C2_FinalizerAfterDeleteUnlessNoRemote ==
    (event.kind = "return" /\ everCompleted /\ event.log.finalizerRemovals > 0)
        => \/ event.log.deleteCalls = 1 /\ ~event.log.deleteFailed
           \/ backupTarget.URL = ""
           \/ ~backupVolume.exists
           \/ backupVolume.deleting

C2_Witness ==
    /\ event.kind = "return" /\ event.log.branch = "deletion"
    /\ everCompleted /\ ~backup.finalizer
    /\ event.log.deleteCalls = 1 /\ event.log.finalizerRemovals = 1

\* C3: when DeleteBackup fails in the deletion branch, the invocation returns an
\* error and is requeued by the dispatch loop, and it neither removes the
\* finalizer nor updates the backup volume.
C3_DeleteFailureKeepsFinalizer ==
    (event.kind = "return" /\ event.log.deleteFailed)
        => /\ event.log.result = "err"
           /\ event.log.finalizerRemovals = 0
           /\ event.log.volumeUpdates = 0
           /\ backup.exists /\ backup.finalizer
           /\ (queue[event.replica].queued \/ queue[event.replica].numRequeues = 0)

C3_Witness ==
    /\ event.kind = "return" /\ event.log.branch = "deleteerr"
    /\ event.log.deleteCalls = 1 /\ event.log.deleteFailed
    /\ queue[event.replica].queued

\* C4 (as stated): an invocation that reaches the deletion branch for a backup
\* whose observed URL is empty calls no DeleteBackup and removes the finalizer.
C4_NoRemoteDeleteWithoutBackupURL ==
    (/\ event.kind = "return"
     /\ event.log.branch \in {"deleteclienterr", "deleteerr", "deletion", "finalizererr"}
     /\ event.log.url = "")
        => event.log.deleteCalls = 0 /\ event.log.finalizerRemovals = 1

\* C4 (amended): an invocation that reaches the deletion branch, with the backup
\* volume looked up, while the backup target has no URL or the backup volume is
\* missing or under deletion calls no DeleteBackup and calls
\* RemoveFinalizerForBackup, whatever the observed URL of the backup.
C4_NoRemoteDeleteWithoutTargetURL ==
    (/\ event.kind = "return"
     /\ event.log.branch \in {"deleteclienterr", "deleteerr", "deletion", "finalizererr"}
     /\ (backupTarget.URL = "" \/ ~backupVolume.exists \/ backupVolume.deleting))
        => event.log.deleteCalls = 0 /\ event.log.finalizerRemovals = 1

C4_Witness ==
    /\ event.kind = "return" /\ event.log.branch = "deletion"
    /\ backupTarget.URL = "" /\ backupVolume.exists /\ ~backupVolume.deleting
    /\ event.log.deleteCalls = 0 /\ event.log.finalizerRemovals = 1
    /\ ~backup.finalizer

\* C5: a monitor that stopped because SnapshotBackup failed or a polled entry
\* reported an error leaves the stored state Error once it has exited, and one
\* that stopped because the engines could not be listed leaves it Unknown, as
\* long as the backup exists and the API server did not fail the write.
C5_MonitorFailureIsWritten ==
    (event.kind = "exit" /\ backup.exists /\ event.log.wrote # "error")
        => /\ event.log.reason \in {"startfailed", "transfererr"}
                => backup.Status.State = BackupStateError
           /\ event.log.reason \in {"listerr", "lost"}
                => backup.Status.State = BackupStateUnknown

\* C6: a monitor whose polls saw no error and progress 100 on the last one has
\* polled once per value, leaves the stored state Completed once it has exited
\* and has issued exactly one sibling wake-up write, on the backup volume if it
\* exists and on the backup target otherwise.
C6_CompletedAfterFullProgress ==
    (/\ event.kind = "exit" /\ event.log.reason = "completed"
     /\ backup.exists /\ event.log.wrote # "error")
        => /\ backup.Status.State = BackupStateCompleted
           /\ event.log.polls >= 1
           /\ event.log.wakeVolume + event.log.wakeTarget = 1
           /\ backupVolume.exists => event.log.wakeVolume = 1

\* C7: a monitor that polled an entry of the requested snapshot with a non-empty
\* error leaves the stored state Error, polls no more and issues no wake-up write.
C7_TransferErrorStopsWithError ==
    /\ \A m \in DOMAIN mon :
          mon[m].reason = "transfererr"
              => mon[m].pc \in {"fetch", "write"} /\ mon[m].state = BackupStateError
                 /\ mon[m].wakeVolume = 0 /\ mon[m].wakeTarget = 0
    /\ (/\ event.kind = "exit" /\ event.log.reason = "transfererr"
        /\ backup.exists /\ event.log.wrote # "error")
          => /\ backup.Status.State = BackupStateError
             /\ event.log.wakeVolume = 0 /\ event.log.wakeTarget = 0

\* C8: a monitor whose poll found no entry of the requested snapshot in any
\* engine sets the state Unknown and stops: it is not left polling.
C8_AbsentEntryStopsWithUnknown ==
    \A m \in DOMAIN mon :
        mon[m].reason = "absent"
            => mon[m].state = BackupStateUnknown /\ mon[m].pc # "poll"

\* C9: an invocation in which isResponsibleFor reports not responsible (or
\* fails), and every invocation that reaches isResponsibleFor while no node has
\* the default engine image ready, writes nothing, calls neither the remote
\* target nor the engine, launches no monitor and returns success.
C9_NotResponsibleWritesNothing ==
    (/\ event.kind = "return"
     /\ \/ ~event.log.responsible /\ event.log.branch \notin {"notfound", "settingerr"}
        \/ ListReadyNodesWithReadyEngineImage = {}
              /\ event.log.branch \notin {"notfound", "settingerr"})
        => /\ event.log.result = "ok"
           /\ event.log.branch \in {"notresponsible", "responsibleerr"}
           /\ event.log.claimWrites = 0 /\ event.log.statusWrites = 0
           /\ event.log.finalizerRemovals = 0 /\ event.log.volumeUpdates = 0
           /\ event.log.deleteCalls = 0 /\ event.log.inspectCalls = 0
           /\ event.log.launches = 0 /\ event.log.enqueues = 0

C9_Witness ==
    /\ event.kind = "return" /\ event.log.branch = "notresponsible"
    /\ ListReadyNodesWithReadyEngineImage = {}
    /\ event.log.result = "ok" /\ event.log.claimWrites = 0
    /\ ~queue[event.replica].queued

\* C10: on both write paths the status is written exactly when it differs: an
\* invocation of reconcile past the deletion check issues one status write if
\* the status it computed differs from the one it started with and none if they
\* are equal, and the monitor's deferred function issues a write exactly when
\* the state it applies differs from the state of the backup it fetched.
C10_StatusWrittenIffChanged ==
    /\ (/\ event.kind = "return"
        /\ event.log.branch \in {"clienterr", "creationerr", "creation", "syncskip",
                                 "syncclienterr", "syncinprogress", "syncfail", "sync"})
          => event.log.statusWrites =
                 (IF event.log.changed /\ event.log.result = "ok" THEN 1 ELSE 0)
    /\ (event.kind = "exit" /\ event.log.wrote # "getfailed")
          => ((event.log.wrote = "unchanged") <=> (event.fetchedState = event.log.state))
    /\ \A m \in DOMAIN mon :
          mon[m].pc = "write" => mon[m].fetched.Status.State # mon[m].state

C10_Witness ==
    /\ event.kind = "exit" /\ event.log.wrote = "unchanged"
    /\ event.fetchedState = BackupStateCompleted
    /\ event.log.state = BackupStateCompleted

\* C11: of a reconcile status write and a monitor status write based on the same
\* stored version exactly one commits: the step that commits stores its own
\* status and leaves every pending write based on the same version stale; a
\* write based on a stale version is rejected and leaves the stored backup as it
\* is; the reconciler that lost has put the key back on its queue and returns
\* success, the monitor that lost returns without another write.
C11_ExactlyOneWriteCommits ==
    [][/\ \A r \in Replicas :
            (rec[r].pc = "deferred" /\ rec'[r].pc = "idle") =>
                /\ event'.log.result = "ok"
                /\ rec[r].backup.resourceVersion # backup.resourceVersion
                     => backup' = backup
                /\ event'.log.statusWriteResult = "conflict"
                     => event'.log.enqueues = 1 /\ queue'[r].queued
                /\ event'.log.statusWriteResult = "ok"
                     => /\ backup'.Status = rec[r].backup.Status
                        /\ \A m \in DOMAIN mon :
                              mon[m].pc = "write"
                                  => mon[m].fetched.resourceVersion # backup'.resourceVersion
       /\ \A m \in DOMAIN mon :
            (mon[m].pc = "write" /\ mon'[m].pc = "done") =>
                /\ mon[m].fetched.resourceVersion # backup.resourceVersion
                     => backup' = backup /\ event'.log.wrote \in {"conflict", "error", "notfound"}
                /\ event'.log.wrote = "ok"
                     => /\ backup'.Status.State = mon[m].state
                        /\ \A r \in Replicas :
                              rec[r].pc = "deferred"
                                  => rec[r].backup.resourceVersion # backup'.resourceVersion
      ]_vars

\* the reconciler lost to the monitor: both wrote on version 1, the monitor's
\* Error is stored as version 2, the reconciler's InProgress was rejected
C11_Witness ==
    /\ controllers = {"n1"}
    /\ event.kind = "return" /\ event.log.branch = "creation"
    /\ event.log.statusWriteResult = "conflict" /\ event.log.result = "ok"
    /\ event.log.enqueues = 1 /\ queue[event.replica].queued
    /\ backup.resourceVersion = 2 /\ backup.Status.State = BackupStateError

\* C12: the stored state becomes Unknown only by a write of a monitor made while
\* the stored state is InProgress: no step changes it to Unknown from unset,
\* Completed or Error, and no step of reconcile changes it to Unknown.
C12_UnknownOnlyFromInProgress ==
    [][(backup'.Status.State = BackupStateUnknown /\ backup.Status.State # BackupStateUnknown)
          => /\ backup.Status.State = BackupStateInProgress
             /\ \E m \in DOMAIN mon : mon[m].pc = "write" /\ mon'[m].pc = "done"
      ]_vars

\* C13: isResponsibleFor is true exactly when some node has the default engine
\* image ready and this replica is preferred (canonical owner with the image
\* ready), or continues (recorded owner with the image ready), or takes over (has
\* the image ready while the recorded owner has not); so a replica without the
\* image is never responsible and never gets past the ownership decision, and a
\* replica neither preferred nor recorded owner is not responsible while the
\* recorded owner has the image ready.
C13_ResponsibleIffPreferredContinuityTakeover ==
    /\ \A r \in Replicas, owner \in Replicas \cup {""}, canonical \in BOOLEAN :
          LET b == [backup EXCEPT !.Status.OwnerID = owner]
              offers(n) == n \in Replicas /\ engineReady[n]
              someNodeOffers == \E n \in Replicas : engineReady[n]
              preferred == canonical /\ offers(r)
              continuity == r = owner /\ offers(r)
              takeover == offers(r) /\ ~offers(owner)
          IN  /\ isResponsibleFor(r, b, canonical)
                    <=> (someNodeOffers /\ (preferred \/ continuity \/ takeover))
              /\ ~offers(r) => ~isResponsibleFor(r, b, canonical)
              /\ (~canonical /\ r # owner /\ offers(owner))
                    => ~isResponsibleFor(r, b, canonical)
    /\ \A r \in Replicas : rec[r].pc # "idle" => rec[r].responsible /\ engineReady[r]
    /\ (event.kind = "return" /\ event.log.responsible) => engineReady[event.replica]

\* n1 has passed the ownership decision for a backup whose recorded owner n2
\* has lost the engine image
C13_Witness ==
    /\ rec["n1"].pc = "claim" /\ rec["n1"].responsible
    /\ rec["n1"].backup.Status.OwnerID = "n2"
    /\ engineReady["n1"] /\ ~engineReady["n2"]

\* C14: when an invocation returns success (not-responsible and already-deleted
\* included) the key is forgotten and the dispatch loop does not put it back;
\* when it returns an error the key is put back rate limited while its number
\* of requeues is below maxRetries, and is forgotten and not put back once the
\* bound is reached.
C14_RetryIsBounded ==
    [][event'.kind = "return" =>
          LET r == event'.replica
              n == queue[r].numRequeues
              log == event'.log
              \* the key was added while the worker was busy, or by this step's write
              addedMeanwhile == \/ queue[r].queued /\ rec[r].pc # "idle"
                                \/ log.enqueues > 0
                                \/ backup' # backup
          IN  /\ log.branch \in {"notfound", "notresponsible", "responsibleerr"}
                    => log.result = "ok"
              /\ log.result = "ok"
                    => /\ queue'[r].numRequeues = 0
                       /\ queue'[r].queued => addedMeanwhile
              /\ (log.result = "err" /\ n < maxRetries)
                    => queue'[r].queued /\ queue'[r].numRequeues = n + 1
              /\ (log.result = "err" /\ n >= maxRetries)
                    => /\ queue'[r].numRequeues = 0
                       /\ queue'[r].queued => addedMeanwhile
      ]_vars

\* an invocation failed with the bound reached: the key is dropped
C14_Witness ==
    /\ event.kind = "return" /\ event.log.result = "err"
    /\ queue[event.replica].numRequeues = 0
    /\ ~queue[event.replica].queued

\* C15: when InspectBackupConfig fails in the sync branch, with an "in progress"
\* error or any other, or gives no info, the invocation leaves the status of the
\* backup as it found it, issues no status write and returns success.
C15_InspectFailureChangesNothing ==
    (event.kind = "return" /\ event.log.branch \in {"syncinprogress", "syncfail"})
        => /\ event.log.inspectCalls = 1
           /\ event.log.result = "ok"
           /\ ~event.log.changed
           /\ event.log.statusWrites = 0 /\ event.log.enqueues = 0
           /\ queue[event.replica].numRequeues = 0

\* an inspect of a backup in progress answered "in progress"
C15_Witness ==
    /\ event.kind = "return" /\ event.log.branch = "syncinprogress"
    /\ event.log.inspectCalls = 1 /\ event.log.result = "ok"
    /\ backup.Status.State = BackupStateInProgress
    /\ backup.Status.LastSyncedAt = 0

\* C16: an invocation on a backup whose recorded owner is already this replica
\* issues no ownership-claim write; an invocation issues the claim write, once,
\* only when the recorded owner it read differs from its controller ID.
C16_OwnerClaimOnlyWhenOwnerDiffers ==
    /\ \A r \in Replicas :
          /\ rec[r].pc = "claim" => rec[r].owner # r /\ rec[r].claimWrites = 0
          /\ rec[r].pc \in {"body", "deferred"}
                => rec[r].claimWrites = (IF rec[r].owner # r THEN 1 ELSE 0)
    /\ event.kind = "return"
          => /\ event.log.claimWrites <= 1
             /\ event.log.owner = event.replica => event.log.claimWrites = 0
             /\ event.log.claimWrites = 1 => event.log.owner # event.replica

\* the owner reconciled again and wrote no claim
C16_Witness ==
    /\ event.kind = "return" /\ event.log.responsible
    /\ event.log.owner = event.replica /\ backup.Status.OwnerID = event.replica
    /\ event.log.claimWrites = 0

\* C17: when the status write at the end of a non-deletion invocation fails with
\* an error that is not a conflict, the invocation returns an error and the
\* dispatch loop puts the key back.
C17_StatusWriteErrorPropagates ==
    (event.kind = "return" /\ event.log.statusWrites = 1
                           /\ event.log.statusWriteResult = "error")
        => event.log.result = "err" /\ queue[event.replica].queued

\* C18: an invocation whose ownership-claim write is rejected with a conflict
\* returns success and does nothing more: no remote delete, no finalizer
\* removal, no transfer start, no inspect, no status write; an invocation whose
\* claim write fails otherwise returns that error, having done nothing more
\* either.
C18_ClaimConflictAbortsWithSuccess ==
    (event.kind = "return" /\ event.log.branch \in {"claimconflict", "claimerr"})
        => /\ event.log.result = (IF event.log.branch = "claimconflict" THEN "ok" ELSE "err")
           /\ event.log.claimWrites = 1
           /\ event.log.deleteCalls = 0 /\ event.log.finalizerRemovals = 0
           /\ event.log.volumeUpdates = 0 /\ event.log.launches = 0
           /\ event.log.inspectCalls = 0 /\ event.log.statusWrites = 0
           /\ event.log.enqueues = 0

\* two replicas raced for the claim and this one lost to its peer
C18_Witness ==
    /\ controllers = Replicas
    /\ event.kind = "return" /\ event.log.branch = "claimconflict"
    /\ event.log.result = "ok" /\ event.log.owner = ""
    /\ backup.Status.OwnerID \in Replicas \ {event.replica}

\* C19 (as stated): an invocation on a backup that is neither under deletion nor
\* to be created does nothing (no inspect, no status change, no write) exactly
\* when the last-synced time is set and not before the sync-requested time;
\* otherwise InspectBackupConfig is called, and on an info the state becomes
\* Completed and the last-synced time is stamped, so that the backup stored by
\* the status write is one the next invocation skips.
C19_SyncSkippedIffSynced ==
    [][\A r \in Replicas :
          LET b == rec[r].backup
              synced == /\ b.Status.LastSyncedAt # 0
                        /\ b.Status.LastSyncedAt >= b.Spec.SyncRequestedAt
              after == IF rec'[r].pc = "deferred" THEN rec'[r] ELSE event'.log
              stored(x) == /\ x.Status.State = BackupStateCompleted
                           /\ x.Status.LastSyncedAt = now
                           /\ x.Status.LastSyncedAt >= x.Spec.SyncRequestedAt
          IN  /\ (/\ rec[r].pc = "body" /\ rec'[r].pc # "body"
                  /\ backupTarget.exists /\ b.hasVolumeLabel /\ ~b.deletionTimestamp
                  /\ ~(b.Spec.SnapshotName # "" /\ b.Status.State = BackupStateNew))
                    => /\ synced => /\ after.inspectCalls = 0 /\ rec'[r].pc = "idle"
                                    /\ ~after.changed /\ after.statusWrites = 0
                                    /\ after.result = "ok"
                       /\ ~synced => after.inspectCalls = 1
                       /\ (rec'[r].pc = "deferred" /\ after.branch = "sync")
                             => stored(after.backup)
              /\ (/\ rec[r].pc = "deferred" /\ rec[r].branch = "sync" /\ rec'[r].pc = "idle"
                  /\ event'.log.statusWriteResult = "ok")
                    => stored(backup')
      ]_vars

\* C19 (amended): as stated, except that when the last-synced time is unset or
\* the sync-requested time is later and the backup target client cannot be
\* initialised, the invocation calls no InspectBackupConfig either, changes
\* nothing and returns success.
C19_SyncSkippedIffSyncedOrNoClient ==
    [][\A r \in Replicas :
          LET b == rec[r].backup
              synced == /\ b.Status.LastSyncedAt # 0
                        /\ b.Status.LastSyncedAt >= b.Spec.SyncRequestedAt
              after == IF rec'[r].pc = "deferred" THEN rec'[r] ELSE event'.log
              stored(x) == /\ x.Status.State = BackupStateCompleted
                           /\ x.Status.LastSyncedAt = now
                           /\ x.Status.LastSyncedAt >= x.Spec.SyncRequestedAt
          IN  /\ (/\ rec[r].pc = "body" /\ rec'[r].pc # "body"
                  /\ backupTarget.exists /\ b.hasVolumeLabel /\ ~b.deletionTimestamp
                  /\ ~(b.Spec.SnapshotName # "" /\ b.Status.State = BackupStateNew))
                    => /\ synced => /\ after.inspectCalls = 0 /\ rec'[r].pc = "idle"
                                    /\ ~after.changed /\ after.statusWrites = 0
                                    /\ after.result = "ok"
                       /\ ~synced => \/ after.inspectCalls = 1
                                     \/ /\ after.branch = "syncclienterr"
                                        /\ after.inspectCalls = 0 /\ rec'[r].pc = "idle"
                                        /\ ~after.changed /\ after.statusWrites = 0
                                        /\ after.result = "ok"
                       /\ (rec'[r].pc = "deferred" /\ after.branch = "sync")
                             => stored(after.backup)
              /\ (/\ rec[r].pc = "deferred" /\ rec[r].branch = "sync" /\ rec'[r].pc = "idle"
                  /\ event'.log.statusWriteResult = "ok")
                    => stored(backup')
      ]_vars

\* a backup synced to Completed was reconciled again with no new sync request
C19_Witness ==
    /\ event.kind = "return" /\ event.log.branch = "syncskip"
    /\ event.log.inspectCalls = 0 /\ event.log.statusWrites = 0
    /\ backup.Status.State = BackupStateCompleted
    /\ backup.Status.LastSyncedAt # 0
    /\ backup.Status.LastSyncedAt >= backup.Spec.SyncRequestedAt

\* C20: every path out of the monitor goes through its deferred function, and a
\* status write of the monitor that commits stores the backup it fetched with
\* only the state replaced: owner, URL, last-synced time, every other field of
\* the status, the spec and the metadata of the stored backup stay as they were.
C20_MonitorWritesOnlyState ==
    [][\A m \in DOMAIN mon :
          /\ (mon[m].pc \in {"start", "poll"} /\ mon'[m].pc \notin {"start", "poll"})
                => mon'[m].pc = "fetch"
          /\ (mon[m].pc = "fetch" /\ mon'[m].pc = "write") => mon'[m].fetched = backup
          /\ (mon[m].pc = "write" /\ mon'[m].pc = "done" /\ backup' # backup)
                => /\ backup'.Status = [mon[m].fetched.Status EXCEPT !.State = mon[m].state]
                   /\ backup'.Status = [backup.Status EXCEPT !.State = mon[m].state]
                   /\ backup' = [backup EXCEPT !.Status.State = mon[m].state,
                                               !.resourceVersion = @ + 1]
      ]_vars

\* a monitor wrote Completed over the InProgress of the owner n1
C20_Witness ==
    /\ event.kind = "exit" /\ event.log.wrote = "ok"
    /\ event.fetchedState = BackupStateInProgress
    /\ event.log.state = BackupStateCompleted
    /\ backup.Status.State = BackupStateCompleted
    /\ backup.Status.OwnerID = "n1"

\* C21: once the stored state of the backup is set (InProgress, Completed, Error
\* or Unknown) no step unsets it: neither a write of reconcile, nor a write of a
\* monitor, nor a write based on a stale copy stores an empty state over it.
C21_StateNeverUnset ==
    [][backup.Status.State # BackupStateNew => backup'.Status.State # BackupStateNew]_vars

\* a replica that read the backup unowned and with no state had its claim write,
\* carrying that empty state, rejected after its peer stored InProgress
C21_Witness ==
    /\ controllers = Replicas
    /\ event.kind = "return" /\ event.log.branch = "claimconflict"
    /\ event.log.owner = "" /\ event.log.claimWrites = 1
    /\ backup.Status.State = BackupStateInProgress
    /\ backup.Status.OwnerID \in Replicas \ {event.replica}

====
